---------------------------- MODULE Spec2Model ----------------------------
(***************************************************************************)
(* A model of ibis_bigquery.Backend (src/ibis_bigquery/__init__.py): the   *)
(* connection state of each Backend instance, the identifier resolver, the *)
(* catalog accessors, the query executor and the execute pipeline.         *)
(*                                                                         *)
(* Python strings are sequences of one-character strings, so that          *)
(* str.split, str.count and str.format are computed character by           *)
(* character.  The warehouse client (google.cloud.bigquery) and the        *)
(* expression compiler are the environment: each call to them gets a       *)
(* response chosen nondeterministically.                                   *)
(***************************************************************************)
EXTENDS Naturals, Sequences, FiniteSets

VARIABLES
    backends,   \* the Backend instances allocated so far, by identity 1..Len
    clients,    \* number of bq.Client objects constructed so far
    last,       \* the call in progress or just completed: arguments, trace, outcome
    pc,         \* "idle" between calls, the statement about to run inside raw_sql
                \* and execute, "returned" when the call has its outcome
    job         \* state of the query job of the call in progress

vars == <<backends, clients, last, pc, job>>

---------------------------------------------------------------------------
(* Bounds of the model *)

\* Backend instances that may be allocated (Backend() plus connect's new ones)
MaxBackends == 3
\* longest raw table name drawn in SpecNames
MaxNameLen == 5
\* longest explicit database string drawn in SpecNames
MaxDbLen == 3

---------------------------------------------------------------------------
(* Python strings *)

\* Python's None, a value no string equals
None == <<"<None>">>

Dot == "."

\* bool(s) for an Optional[str]: None and "" are falsy
Truthy(s) == s # None /\ s # <<>>

\* a or b
Or(a, b) == IF Truthy(a) THEN a ELSE b

\* all strings over alphabet A of length at most n
Strs(A, n) == UNION {[1..k -> A] : k \in 0..n}

RECURSIVE Count(_)
\* s.count(".")
Count(s) ==
    IF s = <<>> THEN 0
    ELSE (IF Head(s) = Dot THEN 1 ELSE 0) + Count(Tail(s))

RECURSIVE SplitFrom(_, _)
\* s.split(".") with `cur` the component being read
SplitFrom(s, cur) ==
    IF s = <<>> THEN <<cur>>
    ELSE IF Head(s) = Dot THEN <<cur>> \o SplitFrom(Tail(s), <<>>)
    ELSE SplitFrom(Tail(s), Append(cur, Head(s)))

\* s.split(".")
Split(s) == SplitFrom(s, <<>>)

\* "{}.{}".format(a, b)
Format2(a, b) == a \o <<Dot>> \o b

\* "{}.{}.{}".format(a, b, c)
Format3(a, b, c) == a \o <<Dot>> \o b \o <<Dot>> \o c

---------------------------------------------------------------------------
(* Outcomes of a call: a returned value or a raised exception *)

Ret(v) == [ok |-> TRUE, val |-> v, err |-> "none"]
Raise(e) == [ok |-> FALSE, val |-> None, err |-> e]

\* the exceptions, one name per raise site
AuthCacheError == "ValueError: Got unexpected value for auth_cache"
NoDatasetError == "ValueError: Unable to determine BigQuery dataset."
TooManyComponents == "ValueError: Got too many components in table name"
NotADataset == "ValueError: is not a BigQuery dataset"
AttributeError == "AttributeError"
NotFound == "NotFound"
Forbidden == "Forbidden"
AuthError == "DefaultCredentialsError"
CompileError == "CompileError"
UnsupportedType == "NotImplementedError"
JobError == "GoogleAPICallError: job failed"
SchemaError == "ValueError: schema"
FetchError == "FetchError"
HandlerError == "HandlerError"

\* what the warehouse client may answer to a catalog call
ClientResponses == {"ok", NotFound, Forbidden}

\* one call made to an external service during an operation
Call(api, arg, resp) == [api |-> api, arg |-> arg, resp |-> resp]

---------------------------------------------------------------------------
(* client.parse_project_and_dataset *)

\* parse_project_and_dataset(project, dataset) -> (data_project,
\* billing_project, dataset): a dataset "proj.ds" names its own data project,
\* a bare dataset lives in `project`, more than one dot is no dataset
parse_project_and_dataset(project, dataset) ==
    IF Count(dataset) > 1 THEN Raise(NotADataset)
    ELSE IF Count(dataset) = 1
    THEN Ret([data_project |-> Split(dataset)[1],
              billing_project |-> project,
              dataset |-> Split(dataset)[2]])
    ELSE Ret([data_project |-> project,
              billing_project |-> project,
              dataset |-> dataset])

---------------------------------------------------------------------------
(* Backend instances *)

ConnAttrs == {"data_project", "billing_project", "dataset", "client", "partition_column"}

\* the value of the client field while no client has been assigned
NoClient == [id |-> 0, project |-> None]

\* a Backend() whose constructor already builds a default client
NewBackend_eager ==
    [attrs |-> ConnAttrs, data_project |-> <<>>, billing_project |-> <<>>,
     dataset |-> <<>>, client |-> NoClient, partition_column |-> None]

\* Backend(): an instance with no connection attribute set
NewBackend ==
    [attrs |-> {}, data_project |-> None, billing_project |-> None,
     dataset |-> None, client |-> NoClient, partition_column |-> None]

\* hasattr(b, a)
HasAttr(b, a) == a \in b.attrs

Connected(b) == HasAttr(b, "client")


---------------------------------------------------------------------------
(* Identifier resolver *)

\* Backend._parse_project_and_dataset(dataset) -> (project, dataset)
_parse_project_and_dataset(b, dataset) ==
    IF ~Truthy(dataset) /\ ~HasAttr(b, "dataset") THEN Raise(AttributeError)
    ELSE IF ~Truthy(dataset) /\ ~Truthy(b.dataset) THEN Raise(NoDatasetError)
    ELSE IF ~HasAttr(b, "billing_project") THEN Raise(AttributeError)
    ELSE IF ~Truthy(dataset) /\ ~HasAttr(b, "data_project") THEN Raise(AttributeError)
    ELSE LET r == parse_project_and_dataset(
                      b.billing_project,
                      Or(dataset, Format2(b.data_project, b.dataset)))
         IN  IF ~r.ok THEN r
             ELSE Ret([project |-> r.val.data_project, dataset |-> r.val.dataset])

\* _fully_qualified_name taking the billing project for the default project
fully_qualified_name_billing(b, name, database) ==
    LET d == _parse_project_and_dataset(b, database)
        parts == Split(name)
    IN  IF ~d.ok THEN d
        ELSE IF Len(parts) = 3 THEN Ret(name)
        ELSE IF Len(parts) = 2 THEN Ret(Format2(b.billing_project, name))
        ELSE IF Len(parts) = 1 THEN Ret(Format3(b.billing_project, d.val.dataset, name))
        ELSE Raise(TooManyComponents)

\* _fully_qualified_name taking every name of three or more parts as qualified
fully_qualified_name_atleast3(b, name, database) ==
    LET d == _parse_project_and_dataset(b, database)
        parts == Split(name)
    IN  IF ~d.ok THEN d
        ELSE IF Len(parts) >= 3 THEN Ret(name)
        ELSE IF Len(parts) = 2 THEN Ret(Format2(d.val.project, name))
        ELSE Ret(Format3(d.val.project, d.val.dataset, name))

\* Backend._fully_qualified_name(name, database)
_fully_qualified_name(b, name, database) ==
    LET d == _parse_project_and_dataset(b, database)
        parts == Split(name)
    IN  IF ~d.ok THEN d
        ELSE IF Len(parts) = 3 THEN Ret(name)
        ELSE IF Len(parts) = 2 THEN Ret(Format2(d.val.project, name))
        ELSE IF Len(parts) = 1 THEN Ret(Format3(d.val.project, d.val.dataset, name))
        ELSE Raise(TooManyComponents)

---------------------------------------------------------------------------
(* Catalog accessors.  Each yields the outcome of the call and the calls it *)
(* made to the warehouse client, in order; `resp` is the client's answer.  *)

Res(out, calls) == [out |-> out, calls |-> calls]

\* Backend.get_schema(name, database)
get_schema(b, name, database, resp) ==
    LET q == _fully_qualified_name(b, name, database)
    IN  IF ~q.ok THEN Res(q, <<>>)
        ELSE IF ~HasAttr(b, "client") THEN Res(Raise(AttributeError), <<>>)
        ELSE Res(IF resp = "ok" THEN Ret("Schema") ELSE Raise(resp),
                 <<Call("get_table", q.val, resp)>>)

\* Backend.table(name, database).  super().table is the base class's table,
\* which resolves the name and calls this class's get_schema on the result.
table(b, name, database, resp1, resp2) ==
    LET q == _fully_qualified_name(b, name, database)
        s == get_schema(b, q.val, None, resp1)
        table_id == _fully_qualified_name(b, name, database)
    IN  IF ~q.ok THEN Res(q, <<>>)
        ELSE IF ~s.out.ok THEN s
        ELSE IF ~table_id.ok THEN Res(table_id, s.calls)
        ELSE Res(IF resp2 = "ok" THEN Ret("TableExpr") ELSE Raise(resp2),
                 Append(s.calls, Call("get_table", table_id.val, resp2)))

\* exists_table with a bare except: every client error becomes False
exists_table_swallow(b, name, database, resp) ==
    LET table_id == _fully_qualified_name(b, name, database)
    IN  IF ~table_id.ok THEN Res(table_id, <<>>)
        ELSE IF ~HasAttr(b, "client") THEN Res(Raise(AttributeError), <<>>)
        ELSE Res(IF resp = "ok" THEN Ret(TRUE) ELSE Ret(FALSE),
                 <<Call("get_table", table_id.val, resp)>>)

\* Backend.exists_table(name, database)
exists_table(b, name, database, resp) ==
    LET table_id == _fully_qualified_name(b, name, database)
    IN  IF ~table_id.ok THEN Res(table_id, <<>>)
        ELSE IF ~HasAttr(b, "client") THEN Res(Raise(AttributeError), <<>>)
        ELSE Res(IF resp = "ok" THEN Ret(TRUE)
                 ELSE IF resp = NotFound THEN Ret(FALSE)
                 ELSE Raise(resp),
                 <<Call("get_table", table_id.val, resp)>>)

\* Backend.exists_database(name)
exists_database(b, name, resp) ==
    LET d == _parse_project_and_dataset(b, name)
    IN  IF ~d.ok THEN Res(d, <<>>)
        ELSE IF ~HasAttr(b, "client") THEN Res(Raise(AttributeError), <<>>)
        ELSE Res(IF resp = "ok" THEN Ret(TRUE)
                 ELSE IF resp = NotFound THEN Ret(FALSE)
                 ELSE Raise(resp),
                 <<Call("get_dataset", Format2(d.val.project, d.val.dataset), resp)>>)

\* Backend.list_tables(like, database)
list_tables(b, database, resp) ==
    LET d == _parse_project_and_dataset(b, database)
    IN  IF ~d.ok THEN Res(d, <<>>)
        ELSE IF ~HasAttr(b, "client") THEN Res(Raise(AttributeError), <<>>)
        ELSE Res(IF resp = "ok" THEN Ret("list") ELSE Raise(resp),
                 <<Call("list_tables", Format2(d.val.project, d.val.dataset), resp)>>)

\* Backend.list_databases(like)
list_databases(b, resp) ==
    IF ~HasAttr(b, "client") \/ ~HasAttr(b, "data_project")
    THEN Res(Raise(AttributeError), <<>>)
    ELSE Res(IF resp = "ok" THEN Ret("list") ELSE Raise(resp),
             <<Call("list_datasets", b.data_project, resp)>>)

\* Backend.database(name)
database(b, name) ==
    IF name = None /\ ~HasAttr(b, "dataset") THEN Res(Raise(AttributeError), <<>>)
    ELSE IF name = None /\ ~Truthy(b.dataset) THEN Res(Raise(NoDatasetError), <<>>)
    ELSE IF ~Truthy(name) /\ ~HasAttr(b, "dataset") THEN Res(Raise(AttributeError), <<>>)
    ELSE Res(Ret(Or(name, b.dataset)), <<>>)

\* set_database assigning the parsed project to the billing project as well
set_database_billing(b, name) ==
    LET d == _parse_project_and_dataset(b, name)
    IN  IF ~d.ok THEN [self |-> b, out |-> d]
        ELSE [self |-> [b EXCEPT !.data_project = d.val.project,
                                 !.billing_project = d.val.project,
                                 !.dataset = d.val.dataset],
              out |-> Ret(None)]

\* Backend.set_database(name): the instance after the call, and the outcome
set_database(b, name) ==
    LET d == _parse_project_and_dataset(b, name)
    IN  IF ~d.ok THEN [self |-> b, out |-> d]
        ELSE [self |-> [b EXCEPT !.data_project = d.val.project,
                                 !.dataset = d.val.dataset,
                                 !.attrs = @ \cup {"data_project", "dataset"}],
              out |-> Ret(None)]

---------------------------------------------------------------------------
(* connect *)

SCOPES == "SCOPES"
EXTERNAL_DATA_SCOPES == "EXTERNAL_DATA_SCOPES"

\* connect falling back to no cache for an auth_cache it does not know
credentials_cache_fallback(auth_cache) ==
    IF auth_cache = "default" THEN "ReadWriteCredentialsCache"
    ELSE IF auth_cache = "reauth" THEN "WriteOnlyCredentialsCache"
    ELSE "NOOP"

\* the credentials cache chosen for auth_cache, "invalid" for the else branch
credentials_cache(auth_cache) ==
    IF auth_cache = "default" THEN "ReadWriteCredentialsCache"
    ELSE IF auth_cache = "reauth" THEN "WriteOnlyCredentialsCache"
    ELSE IF auth_cache = "none" THEN "NOOP"
    ELSE "invalid"

\* the project pydata_google_auth.default reports with the credentials
DefaultProject == <<"q">>

\* Backend.connect(...): the outcome, the external calls made, and the new
\* instance when one is returned.  a is the record of the arguments,
\* auth_resp the answer of pydata_google_auth.default, n the number of
\* clients constructed before the call.
connect(a, auth_resp, n) ==
    LET scopes == IF a.auth_external_data THEN EXTERNAL_DATA_SCOPES ELSE SCOPES
        cache == credentials_cache(a.auth_cache)
        auth == IF a.credentials = None
                THEN <<Call("pydata_google_auth.default", <<scopes, cache>>, auth_resp)>>
                ELSE <<>>
        default_project_id == IF a.credentials = None THEN DefaultProject ELSE <<>>
        project_id == Or(a.project_id, default_project_id)
        r == parse_project_and_dataset(project_id, a.dataset_id)
        new_backend ==
            [attrs |-> ConnAttrs,
             data_project |-> r.val.data_project,
             billing_project |-> r.val.billing_project,
             dataset |-> r.val.dataset,
             client |-> [id |-> n + 1, project |-> r.val.billing_project],
             partition_column |-> a.partition_column]
    IN  IF a.credentials = None /\ cache = "invalid"
        THEN [out |-> Raise(AuthCacheError), calls |-> <<>>, made |-> <<>>]
        ELSE IF a.credentials = None /\ auth_resp # "ok"
        THEN [out |-> Raise(auth_resp), calls |-> auth, made |-> <<>>]
        ELSE IF ~r.ok
        THEN [out |-> r, calls |-> auth, made |-> <<>>]
        ELSE [out |-> Ret("Backend"),
              calls |-> Append(auth, Call("bq.Client", r.val.billing_project, "ok")),
              made |-> <<new_backend>>]

\* connect assigning the connection state to self instead of a new instance
after_connect_inplace(bs, self, made) ==
    IF made = <<>> THEN bs ELSE [bs EXCEPT ![self] = made[1]]

\* the instances after connect was called on instance self and made `made`:
\* the new instance is a separate object, self is not assigned to
after_connect(bs, self, made) == bs \o made

---------------------------------------------------------------------------
(* The record of a call *)

NoJob ==
    [state |-> "none", sql |-> None, project |-> None,
     use_legacy_sql |-> FALSE, query_parameters |-> None]

\* no statement compiled
NoAst == [limit |-> "none", result_handler |-> FALSE]

\* a completed call of operation op on instance self
Done(op, self, name, db, args, res) ==
    [op |-> op, self |-> self, name |-> name, database |-> db, args |-> args,
     out |-> res.out, calls |-> res.calls, steps |-> <<>>, ast |-> NoAst]

Running == [ok |-> FALSE, val |-> None, err |-> "running"]

\* no call in progress
NoCall == Done("none", 0, None, None, None, Res(Ret(None), <<>>))

\* backend = Backend(), as the module's connect() and compile() begin
Init ==
    /\ backends = <<NewBackend>>
    /\ clients = 0
    /\ last = NoCall
    /\ pc = "idle"
    /\ job = NoJob

Selves == 1..Len(backends)

---------------------------------------------------------------------------
(* Operations that run to completion in one step *)

Connect(self, a, auth_resp) ==
    /\ pc = "idle"
    /\ self \in Selves
    /\ Len(backends) < MaxBackends
    /\ LET c == connect(a, auth_resp, clients)
       IN  /\ backends' = after_connect(backends, self, c.made)
           /\ clients' = clients + Len(c.made)
           /\ last' = Done("connect", self, None, None, a, c)
    /\ pc' = "returned"
    /\ UNCHANGED job

SetDatabase(self, name) ==
    /\ pc = "idle"
    /\ self \in Selves
    /\ LET r == set_database(backends[self], name)
       IN  /\ backends' = [backends EXCEPT ![self] = r.self]
           /\ last' = Done("set_database", self, name, None, None, Res(r.out, <<>>))
    /\ pc' = "returned"
    /\ UNCHANGED <<clients, job>>

\* an operation that leaves every instance as it is
Pure(op, self, name, db, res) ==
    /\ pc = "idle"
    /\ self \in Selves
    /\ last' = Done(op, self, name, db, None, res)
    /\ pc' = "returned"
    /\ UNCHANGED <<backends, clients, job>>

FullyQualifiedName(self, name, db) ==
    Pure("_fully_qualified_name", self, name, db,
         Res(_fully_qualified_name(backends[self], name, db), <<>>))

Table(self, name, db, resp1, resp2) ==
    Pure("table", self, name, db, table(backends[self], name, db, resp1, resp2))

GetSchema(self, name, db, resp) ==
    Pure("get_schema", self, name, db, get_schema(backends[self], name, db, resp))

ExistsTable(self, name, db, resp) ==
    Pure("exists_table", self, name, db, exists_table(backends[self], name, db, resp))

ExistsDatabase(self, name, resp) ==
    Pure("exists_database", self, name, None, exists_database(backends[self], name, resp))

ListTables(self, db, resp) ==
    Pure("list_tables", self, None, db, list_tables(backends[self], db, resp))

ListDatabases(self, resp) ==
    Pure("list_databases", self, None, None, list_databases(backends[self], resp))

Database(self, name) ==
    Pure("database", self, name, None, database(backends[self], name))

---------------------------------------------------------------------------
(* Query executor and execute pipeline, one action per statement.  pc names *)
(* the statement about to run; last.steps lists the statements run so far. *)

\* client.bigquery_param(param, value) for a value of kind k
bigquery_param(k) ==
    IF k = "unsupported" THEN Raise(UnsupportedType) ELSE Ret("QueryParameter")

\* raw_sql's list of converted parameters: (params or {}).items()
query_parameters(params) ==
    IF params = None \/ params = <<>> THEN Ret(<<>>)
    ELSE IF \E i \in 1..Len(params) : ~bigquery_param(params[i]).ok
    THEN Raise(UnsupportedType)
    ELSE Ret([i \in 1..Len(params) |-> bigquery_param(params[i]).val])

\* _execute submitting the job under the data project
query_job_dataproject(b, stmt, qparams) ==
    [state |-> "RUNNING", sql |-> stmt, project |-> b.data_project,
     use_legacy_sql |-> FALSE, query_parameters |-> Or(qparams, <<>>)]

\* the job _execute submits with client.query
query_job(b, stmt, qparams) ==
    [state |-> "RUNNING", sql |-> stmt, project |-> b.billing_project,
     use_legacy_sql |-> FALSE, query_parameters |-> Or(qparams, <<>>)]

\* execute fetching the cursor before it resolves the schema
after_fetchfirst(op, label, handler) ==
    IF label = "to_ast_ensure_limit" THEN "compile"
    ELSE IF label = "compile" THEN "raw_sql"
    ELSE IF label = "raw_sql" THEN "query"
    ELSE IF label = "query" THEN "result"
    ELSE IF label = "result" THEN (IF op = "execute" THEN "to_dataframe" ELSE "return")
    ELSE IF label = "to_dataframe" THEN "ast_schema"
    ELSE IF label = "ast_schema" THEN "apply_to"
    ELSE IF label = "apply_to" THEN (IF handler THEN "result_handler" ELSE "return")
    ELSE "return"

\* the statement that follows statement `label` of operation op, "return"
\* when the operation is over; handler: the compiled statement declares a
\* result_handler
after(op, label, handler) ==
    IF label = "to_ast_ensure_limit" THEN "compile"
    ELSE IF label = "compile" THEN "raw_sql"
    ELSE IF label = "raw_sql" THEN "query"
    ELSE IF label = "query" THEN "result"
    ELSE IF label = "result" THEN (IF op = "execute" THEN "ast_schema" ELSE "return")
    ELSE IF label = "ast_schema" THEN "to_dataframe"
    ELSE IF label = "to_dataframe" THEN "apply_to"
    ELSE IF label = "apply_to" THEN (IF handler THEN "result_handler" ELSE "return")
    ELSE "return"

\* the value an operation returns after its last statement `label`
returned(op, label) ==
    IF op = "raw_sql" THEN "Cursor"
    ELSE IF label = "result_handler" THEN "handled result"
    ELSE "result"

\* hasattr(getattr(query_ast, "dml", query_ast), "result_handler")
HasHandler == last.op = "execute" /\ last.args.expr.result_handler

\* statement pc has run with outcome `outcome` ("ok" or the exception raised)
\* after making `calls`
Advance(outcome, calls) ==
    LET next == after(last.op, pc, HasHandler)
        over == outcome # "ok" \/ next = "return"
    IN  /\ last' = [last EXCEPT
                      !.steps = Append(@, pc),
                      !.calls = @ \o calls,
                      !.out = IF outcome # "ok" THEN Raise(outcome)
                              ELSE IF next = "return" THEN Ret(returned(last.op, pc))
                              ELSE Running,
                      !.ast = IF pc = "to_ast_ensure_limit" /\ outcome = "ok"
                              THEN [limit |-> last.args.limit,
                                    result_handler |-> last.args.expr.result_handler]
                              ELSE @]
        /\ pc' = IF over THEN "returned" ELSE next

\* the caller takes the outcome of the completed call; its job and cursor
\* are dropped with it
Return ==
    /\ pc = "returned"
    /\ pc' = "idle"
    /\ last' = NoCall
    /\ job' = NoJob
    /\ UNCHANGED <<backends, clients>>

\* a call of raw_sql(query, params) begins
RawSql(self, query, params) ==
    /\ pc = "idle"
    /\ self \in Selves
    /\ last' = Done("raw_sql", self, None, None,
                    [sql |-> query, params |-> params], Res(Running, <<>>))
    /\ pc' = "raw_sql"
    /\ UNCHANGED <<backends, clients, job>>

\* a call of execute(expr, params, limit) begins
Execute(self, expr, params, limit) ==
    /\ pc = "idle"
    /\ self \in Selves
    /\ last' = Done("execute", self, None, None,
                    [expr |-> expr, params |-> params, limit |-> limit, sql |-> None],
                    Res(Running, <<>>))
    /\ pc' = "to_ast_ensure_limit"
    /\ UNCHANGED <<backends, clients, job>>

\* query_ast = self.compiler.to_ast_ensure_limit(expr, limit, params=params)
ToAst(resp) ==
    /\ pc = "to_ast_ensure_limit"
    /\ Advance(resp, <<>>)
    /\ UNCHANGED <<backends, clients, job>>

\* sql = query_ast.compile()
Compile(resp) ==
    /\ pc = "compile"
    /\ Advance(resp, <<>>)
    /\ UNCHANGED <<backends, clients, job>>

\* raw_sql: convert the parameters, then call _execute
RawSqlParams ==
    /\ pc = "raw_sql"
    /\ LET q == query_parameters(last.args.params)
       IN  Advance(IF q.ok THEN "ok" ELSE q.err, <<>>)
    /\ UNCHANGED <<backends, clients, job>>

\* _execute: build the job configuration and submit the job
Query(resp) ==
    /\ pc = "query"
    /\ LET b == backends[last.self]
           stmt == IF last.op = "execute" THEN <<"c">> ELSE last.args.sql
           j == query_job(b, stmt, query_parameters(last.args.params).val)
       IN  IF ~HasAttr(b, "client") \/ ~HasAttr(b, "billing_project")
           THEN Advance(AttributeError, <<>>) /\ UNCHANGED job
           ELSE /\ Advance(resp, <<Call("query", [j EXCEPT !.state = "submitted"], resp)>>)
                /\ job' = IF resp = "ok" THEN j ELSE job
    /\ UNCHANGED <<backends, clients>>

\* the warehouse runs the job to a terminal state
JobProgress(state) ==
    /\ job.state = "RUNNING"
    /\ job' = [job EXCEPT !.state = state]
    /\ UNCHANGED <<backends, clients, last, pc>>

\* may query.result() return or raise now?
result_ready(j) == j.state \in {"DONE", "FAILED"}

\* _execute: query.result() blocks until the job is finished, then
\* BigQueryCursor(query) is returned
Result ==
    /\ pc = "result"
    /\ result_ready(job)
    /\ Advance(IF job.state = "FAILED" THEN JobError ELSE "ok",
               <<Call("result", None, job.state)>>)
    /\ UNCHANGED <<backends, clients, job>>

\* schema = self.ast_schema(query_ast)
AstSchema(resp) ==
    /\ pc = "ast_schema"
    /\ Advance(resp, <<>>)
    /\ UNCHANGED <<backends, clients, job>>

\* fetch_from_cursor: df = cursor.query.to_dataframe()
ToDataframe(resp) ==
    /\ pc = "to_dataframe"
    /\ Advance(resp, <<Call("to_dataframe", None, resp)>>)
    /\ UNCHANGED <<backends, clients, job>>

\* fetch_from_cursor: schema.apply_to(df)
ApplyTo(resp) ==
    /\ pc = "apply_to"
    /\ Advance(resp, <<>>)
    /\ UNCHANGED <<backends, clients, job>>

\* result = query_ast.dml.result_handler(result)
ResultHandler(resp) ==
    /\ pc = "result_handler"
    /\ Advance(resp, <<>>)
    /\ UNCHANGED <<backends, clients, job>>

---------------------------------------------------------------------------
(* Inputs *)

\* project_id arguments of connect
ProjectIds == {None, <<"p">>}

\* dataset_id arguments of connect: empty, bare, project-qualified, malformed
DatasetIds == {<<>>, <<"e">>, <<"q", Dot, "e">>, <<"q", Dot, "e", Dot, "e">>}

\* database arguments: None or a dataset string
DatabaseArgs == {None} \cup DatasetIds

\* raw table names with 1, 2, 3 and 4 components
TableNames ==
    {<<"t">>, <<"e", Dot, "t">>, <<"q", Dot, "e", Dot, "t">>,
     <<"q", Dot, "e", Dot, "t", Dot, "t">>}

Credentials == {None, <<"c">>}

AuthCaches == {"default", "reauth", "none", "bogus"}

\* connect arguments with the default scopes and partition column
ConnectArgs(datasets, caches) ==
    [project_id : ProjectIds, dataset_id : datasets, credentials : Credentials,
     auth_external_data : {FALSE}, auth_cache : caches,
     partition_column : {<<"PARTITIONTIME">>}]

\* connect arguments asking for the external data scopes and a partition
\* column of their own
ExternalConnectArgs ==
    [project_id : {<<"p">>}, dataset_id : {<<"e">>}, credentials : Credentials,
     auth_external_data : {TRUE}, auth_cache : {"default", "bogus"},
     partition_column : {<<"pt">>}]

\* expressions: a scalar one, whose statement declares a result_handler,
\* and a table one, whose statement does not
Exprs == {[kind |-> "scalar", result_handler |-> TRUE],
          [kind |-> "table", result_handler |-> FALSE]}

Limits == {"default", "10"}

Params == {None, <<"int">>, <<"unsupported">>}

Sqls == {<<"s">>}

\* all raw names and database strings up to the bounds
AllNames == Strs({"t", Dot}, MaxNameLen)
AllDatabases == {None} \cup Strs({"e", Dot}, MaxDbLen)

---------------------------------------------------------------------------
(* The facade: every operation, on every instance *)

\* no call is in progress: a caller may invoke an operation
Idle == pc = "idle"

Next ==
    \/ Idle /\ \E self \in Selves,
                  a \in ConnectArgs(DatasetIds, AuthCaches) \cup ExternalConnectArgs,
                  r \in {"ok", AuthError} : Connect(self, a, r)
    \/ Idle /\ \E self \in Selves, name \in DatabaseArgs : SetDatabase(self, name)
    \/ Idle /\ \E self \in Selves, name \in TableNames, db \in DatabaseArgs :
          FullyQualifiedName(self, name, db)
    \/ Idle /\ \E self \in Selves, name \in TableNames, db \in DatabaseArgs,
          r1 \in ClientResponses, r2 \in ClientResponses : Table(self, name, db, r1, r2)
    \/ Idle /\ \E self \in Selves, name \in TableNames, db \in DatabaseArgs,
          r \in ClientResponses : GetSchema(self, name, db, r)
    \/ Idle /\ \E self \in Selves, name \in TableNames, db \in DatabaseArgs,
          r \in ClientResponses : ExistsTable(self, name, db, r)
    \/ Idle /\ \E self \in Selves, name \in DatabaseArgs, r \in ClientResponses :
          ExistsDatabase(self, name, r)
    \/ Idle /\ \E self \in Selves, db \in DatabaseArgs, r \in ClientResponses :
          ListTables(self, db, r)
    \/ Idle /\ \E self \in Selves, r \in ClientResponses : ListDatabases(self, r)
    \/ Idle /\ \E self \in Selves, name \in DatabaseArgs : Database(self, name)
    \/ Idle /\ \E self \in Selves, q \in Sqls, p \in Params : RawSql(self, q, p)
    \/ Idle /\ \E self \in Selves, e \in Exprs, p \in Params, l \in Limits : Execute(self, e, p, l)
    \/ \E r \in {"ok", CompileError} : ToAst(r)
    \/ \E r \in {"ok", CompileError} : Compile(r)
    \/ RawSqlParams
    \/ \E r \in ClientResponses : Query(r)
    \/ \E st \in {"DONE", "FAILED"} : JobProgress(st)
    \/ Result
    \/ \E r \in {"ok", SchemaError} : AstSchema(r)
    \/ \E r \in {"ok", Forbidden} : ToDataframe(r)
    \/ \E r \in {"ok", FetchError} : ApplyTo(r)
    \/ \E r \in {"ok", HandlerError} : ResultHandler(r)
    \/ Return

Spec == Init /\ [][Next]_vars

---------------------------------------------------------------------------
(* The resolver on the backend that the module's connect() returns, over    *)
(* every raw name and database string up to the bounds                     *)

NextNames ==
    \/ Idle /\ Len(backends) = 1 /\
          \E a \in ConnectArgs(AllDatabases \ {None}, {"default"}) :
             Connect(1, a, "ok")
    \/ Idle /\ \E self \in Selves, name \in AllDatabases : SetDatabase(self, name)
    \/ Idle /\ \E self \in Selves, name \in AllNames, db \in AllDatabases :
          FullyQualifiedName(self, name, db)
    \/ Idle /\ \E self \in Selves, name \in AllNames, db \in AllDatabases,
          r \in {"ok", NotFound} : Table(self, name, db, "ok", r)
    \/ Idle /\ \E self \in Selves, name \in AllNames, db \in AllDatabases,
          r \in {"ok", NotFound} : GetSchema(self, name, db, r)
    \/ Idle /\ \E self \in Selves, name \in AllNames, db \in AllDatabases,
          r \in {"ok", NotFound} : ExistsTable(self, name, db, r)
    \/ Return

SpecNames == Init /\ [][NextNames]_vars

---------------------------------------------------------------------------
(* Properties of the identifier resolver *)

\* the instance the call in `last` was made on
Self == backends[last.self]

Returned(op) == pc = "returned" /\ last.op = op

\* the call in `last` returned v / raised e
Returns(v) == last.out.ok /\ last.out.val = v
Raised(e) == ~last.out.ok /\ last.out.err = e

\* number of dot-separated components of a string
Components(s) == Len(Split(s))

\* C1: on a backend whose default project and default dataset are both set,
\* with no explicit database, _fully_qualified_name returns
\* project.dataset.table: a 1-component name gets the default project and
\* dataset in front, a 2-component name the default project, a 3-component
\* name is returned as given, and a name of 4 or more components raises the
\* "too many components" ValueError.
C1_ResolverQualifies ==
    (/\ Returned("_fully_qualified_name")
     /\ last.database = None
     /\ Truthy(Self.data_project)
     /\ Truthy(Self.dataset))
    => LET n == Components(last.name)
       IN  /\ n = 1 => /\ last.out.ok
                       /\ Split(last.out.val) =
                              <<Self.data_project, Self.dataset, last.name>>
           /\ n = 2 => /\ last.out.ok
                       /\ Split(last.out.val) = <<Self.data_project>> \o Split(last.name)
           /\ n = 3 => Returns(last.name)
           /\ n >= 4 => Raised(TooManyComponents)

\* a 2-component name resolved against a data project that differs from the
\* billing project
C1_Witness ==
    /\ Returned("_fully_qualified_name")
    /\ last.database = None
    /\ Truthy(Self.dataset)
    /\ Truthy(Self.data_project)
    /\ Self.data_project # Self.billing_project
    /\ Components(last.name) = 2
    /\ last.out.ok

\* C2: on a connected backend given no explicit database, a name of exactly
\* 3 (non-empty) components is returned unchanged by _fully_qualified_name,
\* whether or not the backend has a default dataset.
C2_ThreePartsVerbatim ==
    (/\ Returned("_fully_qualified_name")
     /\ Connected(Self)
     /\ last.database = None
     /\ Components(last.name) = 3
     /\ \A i \in 1..3 : Split(last.name)[i] # <<>>)
    => Returns(last.name)

\* the table lookups among the calls made
TableLookups == {i \in 1..Len(last.calls) : last.calls[i].api = "get_table"}

\* C6: every identifier given to the client's get_table by table, get_schema
\* and exists_table has exactly three dot-separated components, and a call
\* whose name does not resolve (a resolver error, or more than three
\* components) ends in that error with no call made to the client.
C6_OnlyQualifiedNamesSent ==
    last.op \in {"table", "get_schema", "exists_table"}
    => /\ \A i \in TableLookups : Components(last.calls[i].arg) = 3
       /\ (pc = "returned" /\ Components(last.name) > 3)
             => ~last.out.ok /\ last.calls = <<>>
       /\ last.out.err \in {TooManyComponents, NoDatasetError, NotADataset}
             => last.calls = <<>>

\* table has looked up a 1-component name resolved with an explicit
\* project-qualified database
C6_Witness ==
    /\ Returned("table")
    /\ Components(last.name) = 1
    /\ last.database # None
    /\ Count(last.database) = 1
    /\ Len(last.calls) = 2
    /\ last.out.ok

---------------------------------------------------------------------------
(* Properties of the facade *)

\* an instance that connect never gave a client: constructed by Backend()
Unconnected(b) == b.client = NoClient

\* the data-accessing operations
DataOps == {"execute", "table", "list_tables", "get_schema", "raw_sql"}

LastStep == last.steps[Len(last.steps)]

\* C3 as stated: on an instance in the Unconnected state every
\* data-accessing operation (execute, table, list_tables, get_schema,
\* raw_sql) fails with the not-connected error, which is the AttributeError
\* of the missing connection attribute, and no call to the warehouse client
\* is made.
C3_UnconnectedRaisesNotConnected ==
    (last.op \in DataOps /\ Unconnected(Self))
    => /\ last.calls = <<>>
       /\ pc = "returned" => Raised(AttributeError)

\* C3 as amended: on an instance in the Unconnected state every
\* data-accessing operation fails and no call to the warehouse client is
\* made and no job is submitted; table, list_tables and get_schema fail with
\* the AttributeError of the missing connection attribute, and so do execute
\* and raw_sql unless a statement that does not touch the connection failed
\* first: compiling the expression (execute) or converting the parameters
\* (execute, raw_sql).
C3_UnconnectedFailsBeforeClient ==
    (last.op \in DataOps /\ Unconnected(Self))
    => /\ last.calls = <<>>
       /\ job = NoJob
       /\ pc = "returned" =>
            /\ ~last.out.ok
            /\ \/ Raised(AttributeError)
               \/ /\ last.op = "execute"
                  /\ Raised(CompileError)
                  /\ LastStep \in {"to_ast_ensure_limit", "compile"}
               \/ /\ last.op \in {"execute", "raw_sql"}
                  /\ Raised(UnsupportedType)
                  /\ LastStep = "raw_sql"

\* execute on the Unconnected instance got as far as submitting the query
\* and failed there
C3_Witness ==
    /\ Returned("execute")
    /\ Unconnected(Self)
    /\ Raised(AttributeError)
    /\ last.steps = <<"to_ast_ensure_limit", "compile", "raw_sql", "query">>

\* C4 as stated: a successful connect on an instance leaves that same
\* instance Connected.
C4_ConnectMovesSelfToConnected ==
    (Returned("connect") /\ last.out.ok) => Connected(Self)

\* the clients held by the instances bs
ClientIds(bs) == {bs[i].client.id : i \in 1..Len(bs)}

\* C4 as amended: a successful connect returns a new instance that is
\* Connected and holds one client handle that no other instance holds, and
\* leaves every existing instance, the one it was called on included, as it
\* was; no step of any operation takes a Connected instance back to
\* Unconnected or gives it another client handle.
C4_ConnectReturnsNewConnected ==
    [][/\ (pc = "idle" /\ pc' = "returned" /\ last'.op = "connect" /\ last'.out.ok)
            => /\ Len(backends') = Len(backends) + 1
               /\ \A i \in 1..Len(backends) : backends'[i] = backends[i]
               /\ LET new == backends'[Len(backends')]
                  IN  /\ new.attrs = ConnAttrs
                      /\ Connected(new)
                      /\ new.client.id \notin ClientIds(backends) \cup {0}
                      /\ clients' = clients + 1
       /\ \A i \in 1..Len(backends) :
             Connected(backends[i])
             => /\ i <= Len(backends')
                /\ Connected(backends'[i])
                /\ backends'[i].client = backends[i].client
      ]_vars

\* a further connect, called on a Connected instance, has returned a third
\* instance while the first is still Unconnected
C4_Witness ==
    /\ Returned("connect")
    /\ last.out.ok
    /\ last.self = 2
    /\ Len(backends) = 3
    /\ Unconnected(backends[1])
    /\ Connected(backends[2])
    /\ Connected(backends[3])
    /\ backends[2].client # backends[3].client

\* C5: after connect, billing_project, partition_column and the client
\* handle of an instance never change; data_project and dataset change only
\* in a set_database on that instance that succeeds; a set_database that
\* fails leaves the instance as it was; every other operation leaves the
\* connection state unchanged.
C5_ConnectionStateFrame ==
    [][\A i \in 1..Len(backends) :
          Connected(backends[i])
          => /\ i <= Len(backends')
             /\ backends'[i].billing_project = backends[i].billing_project
             /\ backends'[i].partition_column = backends[i].partition_column
             /\ backends'[i].client = backends[i].client
             /\ backends'[i].attrs = backends[i].attrs
             /\ (\/ backends'[i].data_project # backends[i].data_project
                 \/ backends'[i].dataset # backends[i].dataset)
                => /\ pc = "idle" /\ pc' = "returned"
                   /\ last'.op = "set_database"
                   /\ last'.self = i
                   /\ last'.out.ok
             /\ (pc' = "returned" /\ last'.op = "set_database" /\ ~last'.out.ok)
                => backends'[i] = backends[i]
      ]_vars

\* set_database("q.e") has succeeded on an instance billed to project p
C5_Witness ==
    /\ Returned("set_database")
    /\ last.out.ok
    /\ last.name = <<"q", Dot, "e">>
    /\ Self.billing_project = <<"p">>
    /\ Self.data_project = <<"q">>

\* the jobs submitted by the call in `last`
QueryCalls == {i \in 1..Len(last.calls) : last.calls[i].api = "query"}

\* C7: a call of the query executor (raw_sql, and execute through it)
\* submits at most one job and exactly one when it gets a cursor; the job
\* has legacy SQL disabled and runs under the billing project the client was
\* made with at connect; a Cursor is returned, and execute goes on, only when
\* the job is DONE; when the job FAILED the call ends with the job's error,
\* no cursor and no second submission.
C7_OneJobPerExecutorCall ==
    last.op \in {"raw_sql", "execute"}
    => /\ Cardinality(QueryCalls) <= 1
       /\ \A i \in QueryCalls :
             /\ ~last.calls[i].arg.use_legacy_sql
             /\ last.calls[i].arg.project = Self.client.project
       /\ job.state # "none"
             => /\ Cardinality(QueryCalls) = 1
                /\ ~job.use_legacy_sql
                /\ job.project = Self.client.project
       /\ (Returned("raw_sql") /\ last.out.ok)
             => /\ last.out.val = "Cursor"
                /\ job.state = "DONE"
                /\ Cardinality(QueryCalls) = 1
       /\ (last.op = "execute" /\ \E i \in 1..Len(last.steps) : last.steps[i] = "ast_schema")
             => job.state = "DONE"
       /\ pc = "ast_schema" => job.state = "DONE"
       /\ job.state = "FAILED"
             => /\ pc \in {"result", "returned"}
                /\ pc = "returned" => Raised(JobError)

\* raw_sql returned a cursor on an instance whose data project is not its
\* billing project
C7_Witness ==
    /\ Returned("raw_sql")
    /\ last.out.ok
    /\ job.state = "DONE"
    /\ Self.data_project # Self.billing_project

\* the statements of execute in order; the result handler only when the
\* compiled statement declares one
Pipeline(handler) ==
    <<"to_ast_ensure_limit", "compile", "raw_sql", "query", "result",
      "ast_schema", "to_dataframe", "apply_to">>
    \o (IF handler THEN <<"result_handler">> ELSE <<>>)

IsPrefix(s, t) == Len(s) <= Len(t) /\ \A i \in 1..Len(s) : s[i] = t[i]

Materializations == {i \in 1..Len(last.calls) : last.calls[i].api = "to_dataframe"}

\* C8: the statements of one execute call run in the order compile to an AST
\* with the row limit, render SQL, run the query executor, resolve the
\* schema, materialize the cursor, apply the result handler if the statement
\* declares one, each at most once; a failure ends the call with no later
\* statement run; the cursor is materialized at most once, and exactly once
\* in a call that returns.
C8_ExecutePipelineOrder ==
    last.op = "execute"
    => LET P == Pipeline(last.args.expr.result_handler)
           run == IF pc = "returned" THEN last.steps ELSE Append(last.steps, pc)
       IN  /\ IsPrefix(run, P)
           /\ Len(last.steps) >= 1 /\ (Len(last.steps) > 1 \/ last.out.err = "running")
                 => /\ last.ast.limit = last.args.limit
                    /\ last.ast.result_handler = last.args.expr.result_handler
           /\ last.out.ok => (pc = "returned" /\ last.steps = P)
           /\ last.out.err \notin {"none", "running"} => pc = "returned"
           /\ last.out.ok =>
                 last.out.val = IF last.args.expr.result_handler
                                THEN "handled result" ELSE "result"
           /\ Cardinality(Materializations) <= 1
           /\ last.out.ok => Cardinality(Materializations) = 1
           /\ \A i \in Materializations :
                 \E k \in 1..Len(last.steps) : last.steps[k] = "ast_schema"

\* an execute of an expression with a result handler has returned
C8_Witness ==
    /\ Returned("execute")
    /\ last.out.ok
    /\ last.out.val = "handled result"
    /\ last.ast.limit = "10"

\* the calls of `last` that the client answered with an error
FailedCalls == {i \in 1..Len(last.calls) : last.calls[i].resp \notin {"ok", "DONE"}}

\* the exception a failed call raises
ErrorOf(c) == IF c.resp = "FAILED" THEN JobError ELSE c.resp

ExistenceChecks == {"exists_table", "exists_database"}

\* C9: exists_table and exists_database return False when the client raises
\* NotFound and True when the lookup succeeds, and raise every other error;
\* every other operation raises the error of a failed client call,
\* NotFound included.
C9_NotFoundSwallowedOnlyByExistenceChecks ==
    (pc = "returned" /\ last.op # "none")
    => /\ last.op \in ExistenceChecks
             => /\ \A i \in FailedCalls :
                      IF last.calls[i].resp = NotFound
                      THEN Returns(FALSE)
                      ELSE Raised(last.calls[i].resp)
                /\ (FailedCalls = {} /\ last.calls # <<>>) => Returns(TRUE)
                /\ last.out.ok => last.calls # <<>>
       /\ last.op \notin ExistenceChecks
             => \A i \in FailedCalls : Raised(ErrorOf(last.calls[i]))

\* exists_table has turned a NotFound into False
C9_Witness ==
    /\ Returned("exists_table")
    /\ Returns(FALSE)
    /\ last.calls[1].resp = NotFound

ValidAuthCaches == {"default", "reauth", "none"}

\* C10 as stated: connect with an auth_cache other than 'default', 'reauth'
\* or 'none' raises the auth_cache ValueError with no credential acquisition
\* and no client made, and produces no backend, whatever the other
\* arguments are.
C10_BadAuthCacheRejected ==
    [][(/\ pc = "idle" /\ pc' = "returned"
        /\ last'.op = "connect"
        /\ last'.args.auth_cache \notin ValidAuthCaches)
       => /\ ~last'.out.ok
          /\ last'.out.err = AuthCacheError
          /\ last'.calls = <<>>
          /\ backends' = backends
          /\ clients' = clients
      ]_vars

\* C10 as amended: connect called without credentials and with an auth_cache
\* other than 'default', 'reauth' or 'none' raises the auth_cache ValueError
\* with no credential acquisition and no client made, and produces no
\* backend, whatever the other arguments are.
C10_BadAuthCacheRejectedWithoutCredentials ==
    [][(/\ pc = "idle" /\ pc' = "returned"
        /\ last'.op = "connect"
        /\ last'.args.credentials = None
        /\ last'.args.auth_cache \notin ValidAuthCaches)
       => /\ ~last'.out.ok
          /\ last'.out.err = AuthCacheError
          /\ last'.calls = <<>>
          /\ backends' = backends
          /\ clients' = clients
      ]_vars

\* connect without credentials has rejected auth_cache = 'bogus'
C10_Witness ==
    /\ Returned("connect")
    /\ last.args.auth_cache = "bogus"
    /\ last.args.credentials = None
    /\ last.args.project_id # None
    /\ Raised(AuthCacheError)
    /\ Len(backends) = 1

=============================================================================
